---- MODULE Spec2Model ----
(***************************************************************************)
(* Watched: the packed watch record of CryptoMiniSat (src/watched.h), the  *)
(* occurrence pair OccurClause and the watch-list comparator               *)
(* WatchSorterBinTriLong.                                                  *)
(*                                                                         *)
(* Unsigned machine integers that are packed, shifted, masked or truncated *)
(* (ClOffset, the uint64_t clause ID, the bit-field data2) are modelled    *)
(* exactly, as the set of the positions of their 1-bits: bit-and is        *)
(* intersection, bit-or is union, a shift moves the positions, storing     *)
(* into an n-bit field keeps the positions below n.  The 32-bit first word *)
(* (data1) is only ever copied and compared, so it is a natural number.    *)
(***************************************************************************)
EXTENDS Integers, Naturals, Sequences, FiniteSets, TLC

VARIABLES
    large,      \* build: ClOffset is 64 bits wide (LARGE_OFFSETS), else 32
    debug,      \* build: DEBUG_WATCHED is defined
    w,          \* a Watched record
    made,       \* how w was constructed: constructor and its arguments
    last,       \* the operation executed last
    steps,      \* number of mutator calls made on w
    aborted,    \* an assert has failed, the program is gone
    w2,         \* a second, independently constructed record
    made2,      \* how w2 was constructed
    eq,         \* <<result of w == w2>>, empty before the comparison
    recs,       \* three records handed to a comparator
    plits,      \* the literals of three occurrence pairs
    args,       \* the constructor arguments recs was built from
    cmp,        \* results of the comparator on every pair of recs
    list,       \* one literal's watch list
    prevList,   \* the watch list before the last sort
    nsorts      \* number of sorts applied to list

vars == <<large, debug, w, made, last, steps, aborted, w2, made2, eq,
          recs, plits, args, cmp, list, prevList, nsorts>>

-----------------------------------------------------------------------------
(* Bounds of the model *)

MaxWord == 2        \* first-word values (literals, indices, abstractions) 0..MaxWord
MaxSteps == 3       \* mutator calls per record
MaxSmall == 1       \* small offsets and identifiers 0..MaxSmall
MaxOrdWord == 1     \* first-word values of the records handed to a comparator
MaxOrdId == 1       \* identifiers / offsets of the records handed to a comparator
MaxListLen == 3     \* length of a watch list

-----------------------------------------------------------------------------
(* Machine integers as sets of bit positions *)

Bits(n) == 0..(n - 1)

Ones(n) == Bits(n)

Max(S) == CHOOSE x \in S : \A y \in S : y <= x

\* the bits of a small natural number
ToBits(n) == {i \in 0..15 : (n \div (2 ^ i)) % 2 = 1}

RECURSIVE FromBits(_)
FromBits(s) == IF s = {} THEN 0
               ELSE LET i == Max(s) IN (2 ^ i) + FromBits(s \ {i})

\* x << k in an unsigned type of the given width
Shl(s, k, width) == {i + k : i \in s} \cap Bits(width)

\* x >> k
Shr(s, k) == {i - k : i \in {j \in s : j >= k}}

\* storing into an n-bit unsigned field
Trunc(s, n) == s \cap Bits(n)

\* unsigned x < y
ULess(s, t) == s # t /\ Max((s \ t) \cup (t \ s)) \in t

FromBool(b) == IF b THEN {0} ELSE {}

Uint64Bits == 64    \* uint64_t
UintBits == 32      \* unsigned int, the type of the literal 1U

\* width of ClOffset, the type behind the bit-fields type and data2
NativeBits == IF large THEN 64 ELSE 32

EFFECTIVELY_USEABLE_BITS == NativeBits - 2

-----------------------------------------------------------------------------
(* enum WatchType, enum BNNPropType *)

watch_clause_t == 0
watch_binary_t == 1
watch_bnn_t == 2
watch_idx_t == 3
WatchType == {watch_clause_t, watch_binary_t, watch_bnn_t, watch_idx_t}

bnn_pos_t == 0
bnn_neg_t == 1
bnn_out_t == 2
BNNPropType == {bnn_pos_t, bnn_neg_t, bnn_out_t}

-----------------------------------------------------------------------------
(* Lit (solvertypes.h): a wrapper around its 32-bit integer encoding *)

Lit(n) == [x |-> n]
toInt(l) == l.x
toLit(n) == Lit(n)
Lit_lt(p, q) == p.x < q.x

-----------------------------------------------------------------------------
(* class Watched: constructors *)

Watched_clause_blocked(offset, blockedLit) ==
    [data1 |-> toInt(blockedLit),
     type  |-> watch_clause_t,
     data2 |-> Trunc(offset, EFFECTIVELY_USEABLE_BITS)]

Watched_clause_abst(offset, abst) ==
    [data1 |-> abst,
     type  |-> watch_clause_t,
     data2 |-> Trunc(offset, EFFECTIVELY_USEABLE_BITS)]

\* data2 has no initializer: it holds whatever was in memory (junk)
Watched_idx(idx, t, junk) ==
    [data1 |-> idx,
     type  |-> t,
     data2 |-> Trunc(junk, EFFECTIVELY_USEABLE_BITS)]

Watched_bnn(idx, t, bnn_p_t) ==
    [data1 |-> idx,
     type  |-> t,
     data2 |-> Trunc(ToBits(bnn_p_t), EFFECTIVELY_USEABLE_BITS)]

\* the identifier shifted by one bit only: it overlaps the marked bit
Watched_bin_shift1(lit, red_, ID) ==
    [data1 |-> toInt(lit),
     type  |-> watch_binary_t,
     data2 |-> Trunc(FromBool(red_) \cup Shl(ID, 1, Uint64Bits),
                     EFFECTIVELY_USEABLE_BITS)]

Watched_bin(lit, red_, ID) ==
    [data1 |-> toInt(lit),
     type  |-> watch_binary_t,
     data2 |-> Trunc(FromBool(red_) \cup Shl(ID, 2, Uint64Bits),
                     EFFECTIVELY_USEABLE_BITS)]

-----------------------------------------------------------------------------
(* class Watched: accessors *)

getType(r) == r.type
isBin(r) == r.type = watch_binary_t
isClause(r) == r.type = watch_clause_t
isIdx(r) == r.type = watch_idx_t
isBNN(r) == r.type = watch_bnn_t

get_idx(r) == r.data1
get_bnn(r) == r.data1
get_bnn_prop_t(r) == FromBits(r.data2)
lit2(r) == toLit(r.data1)
red(r) == 0 \in r.data2
get_ID(r) == Shr(r.data2, 2)
bin_cl_marked(r) == 1 \in r.data2
getBlockedLit(r) == toLit(r.data1)
getAbst(r) == r.data1
get_offset(r) == r.data2

Watched_eq(r, s) == r.data1 = s.data1 /\ r.data2 = s.data2 /\ r.type = s.type

-----------------------------------------------------------------------------
(* struct OccurClause *)

OccurClause(l, r) == [lit |-> l, ws |-> r]

OccurClause_eq(p, q) == p.lit = q.lit /\ Watched_eq(p.ws, q.ws)

\* the asserts on the path operator< takes for p and q
OccurClause_lt_ok(p, q) ==
    (~isBin(p.ws) /\ ~isBin(q.ws)) =>
        /\ ~isBNN(p.ws)
        /\ ~isBNN(q.ws)
        /\ debug => (isClause(p.ws) /\ isClause(q.ws))

\* offsets compared with <= instead of <
OccurClause_lt_leq(p, q) ==
    IF isBin(p.ws) /\ ~isBin(q.ws) THEN TRUE
    ELSE IF ~isBin(p.ws) /\ isBin(q.ws) THEN FALSE
    ELSE IF isBin(p.ws) THEN Lit_lt(lit2(p.ws), lit2(q.ws))
    ELSE ~ULess(get_offset(q.ws), get_offset(p.ws))

OccurClause_lt(p, q) ==
    IF isBin(p.ws) /\ ~isBin(q.ws) THEN TRUE
    ELSE IF ~isBin(p.ws) /\ isBin(q.ws) THEN FALSE
    ELSE IF isBin(p.ws) THEN Lit_lt(lit2(p.ws), lit2(q.ws))
    ELSE ULess(get_offset(p.ws), get_offset(q.ws))

-----------------------------------------------------------------------------
(* struct WatchSorterBinTriLong *)

WatchSorterBinTriLong_ok(a, b) == ~isIdx(a) /\ ~isIdx(b)

\* identifiers compared with <= instead of <
WatchSorterBinTriLong_leq(a, b) ==
    IF isClause(a) \/ isBNN(a) THEN FALSE
    ELSE IF isClause(b) \/ isBNN(b) THEN TRUE
    ELSE IF lit2(a) # lit2(b) THEN Lit_lt(lit2(a), lit2(b))
    ELSE IF red(a) # red(b) THEN ~red(a)
    ELSE ~ULess(get_ID(b), get_ID(a))

\* a binary record is not ranked before a clause record
WatchSorterBinTriLong_nofirst(a, b) ==
    IF isClause(a) \/ isBNN(a) THEN FALSE
    ELSE IF isClause(b) \/ isBNN(b) THEN FALSE
    ELSE IF lit2(a) # lit2(b) THEN Lit_lt(lit2(a), lit2(b))
    ELSE IF red(a) # red(b) THEN ~red(a)
    ELSE ULess(get_ID(a), get_ID(b))

\* redundant ranked before irreducible
WatchSorterBinTriLong_redfirst(a, b) ==
    IF isClause(a) \/ isBNN(a) THEN FALSE
    ELSE IF isClause(b) \/ isBNN(b) THEN TRUE
    ELSE IF lit2(a) # lit2(b) THEN Lit_lt(lit2(a), lit2(b))
    ELSE IF red(a) # red(b) THEN red(a)
    ELSE ULess(get_ID(a), get_ID(b))

WatchSorterBinTriLong(a, b) ==
    IF isClause(a) \/ isBNN(a) THEN FALSE
    ELSE IF isClause(b) \/ isBNN(b) THEN TRUE
    ELSE IF lit2(a) # lit2(b) THEN Lit_lt(lit2(a), lit2(b))
    ELSE IF red(a) # red(b) THEN ~red(a)
    ELSE ULess(get_ID(a), get_ID(b))

-----------------------------------------------------------------------------
(* class Watched: mutators.  X_ok is the conjunction of the asserts of X   *)
(* that the build compiles in.                                             *)

setBlockedLit_ok(r) == debug => r.type = watch_clause_t
setBlockedLit(r, blockedLit) == [r EXCEPT !.data1 = toInt(blockedLit)]

setLit2_ok(r) == debug => isBin(r)
setLit2(r, lit) == [r EXCEPT !.data1 = toInt(lit)]

setRed_ok(r, toSet) == /\ debug => (isBin(r) /\ red(r))
                       /\ toSet = FALSE
\* data2 &= (~(1U)): the mask is an unsigned int, zero-extended to the
\* width of data2
setRed(r, toSet) ==
    [r EXCEPT !.data2 = Trunc(r.data2 \cap (Bits(UintBits) \ {0}),
                              EFFECTIVELY_USEABLE_BITS)]

mark_bin_cl_ok(r) == debug => isBin(r)
\* the mark is or-ed into the discriminant instead of data2
mark_bin_cl_type(r) ==
    [r EXCEPT !.type = IF r.type \in {watch_bnn_t, watch_idx_t} THEN r.type
                       ELSE r.type + 2]

mark_bin_cl(r) ==
    [r EXCEPT !.data2 = Trunc(r.data2 \cup {1}, EFFECTIVELY_USEABLE_BITS)]

unmark_bin_cl_ok(r) == debug => isBin(r)
\* data2 &= (~(2ULL))
unmark_bin_cl(r) ==
    [r EXCEPT !.data2 = Trunc(r.data2 \cap (Bits(Uint64Bits) \ {1}),
                              EFFECTIVELY_USEABLE_BITS)]

-----------------------------------------------------------------------------
(* Argument values *)

Words == 0..MaxWord
Lits == {Lit(n) : n \in Words}

SmallVals == {ToBits(n) : n \in 0..MaxSmall}

\* identifiers (uint64_t): small ones and the ones around the bit budget of
\* either width of data2
IdSamples == SmallVals \cup {Ones(28), {28}, {30}, Ones(60), {60}, {62}}

\* the largest identifier that fits data2 next to the two flag bits
MaxID == Ones(EFFECTIVELY_USEABLE_BITS - 2)
MaxIDPlus1 == {EFFECTIVELY_USEABLE_BITS - 2}
IdFits(ID) == ID \subseteq Bits(EFFECTIVELY_USEABLE_BITS - 2)

\* offsets (ClOffset): small ones and the ones around the usable width
OffsetSamples ==
    {o \in SmallVals \cup {Ones(30), {30}, Ones(32), Ones(62), {62}, Ones(64)} :
        o \subseteq Bits(NativeBits)}

OffsetFits(o) == o \subseteq Bits(EFFECTIVELY_USEABLE_BITS)

\* what an uninitialized data2 may hold
JunkSamples == {{}, {0}, {1}, Ones(64)}

NoRec == [data1 |-> 0, type |-> watch_clause_t, data2 |-> {}]
NoMade == [ctor |-> "none", word |-> 0, wide |-> {}, red |-> FALSE,
           t |-> watch_clause_t, role |-> 0]

Made(c, word, wide, r, t, role) ==
    [ctor |-> c, word |-> word, wide |-> wide, red |-> r, t |-> t, role |-> role]

-----------------------------------------------------------------------------
(* Spec: one record is constructed and then mutated *)

OtherUnchanged == UNCHANGED <<large, debug, w2, made2, eq, recs, plits, args,
                              cmp, list, prevList, nsorts>>

Init ==
    /\ large \in BOOLEAN
    /\ debug \in BOOLEAN
    /\ w = NoRec
    /\ made = NoMade
    /\ last = [op |-> "init", arg |-> FALSE]
    /\ steps = 0
    /\ aborted = FALSE
    /\ w2 = NoRec
    /\ made2 = NoMade
    /\ eq = <<>>
    /\ recs = <<>>
    /\ plits = <<>>
    /\ args = <<>>
    /\ cmp = <<>>
    /\ list = <<>>
    /\ prevList = <<>>
    /\ nsorts = 0

CanConstruct == made.ctor = "none" /\ ~aborted

Constructed(r, m) ==
    /\ w' = r
    /\ made' = m
    /\ last' = [op |-> "construct", arg |-> FALSE]
    /\ UNCHANGED <<steps, aborted>>
    /\ OtherUnchanged

CtorClauseBlocked ==
    /\ CanConstruct
    /\ \E offset \in OffsetSamples, n \in Words :
          Constructed(Watched_clause_blocked(offset, Lit(n)),
                      Made("clause_blocked", n, offset, FALSE, watch_clause_t, 0))

CtorClauseAbst ==
    /\ CanConstruct
    /\ \E offset \in OffsetSamples, abst \in Words :
          Constructed(Watched_clause_abst(offset, abst),
                      Made("clause_abst", abst, offset, FALSE, watch_clause_t, 0))

\* assert(t == watch_idx_t) runs after the members are initialized
CtorIdx ==
    /\ CanConstruct
    /\ \E idx \in Words, t \in WatchType, junk \in JunkSamples :
          IF t = watch_idx_t
          THEN Constructed(Watched_idx(idx, t, junk),
                           Made("idx", idx, {}, FALSE, t, 0))
          ELSE /\ aborted' = TRUE
               /\ last' = [op |-> "construct", arg |-> FALSE]
               /\ UNCHANGED <<w, made, steps>>
               /\ OtherUnchanged

CtorBnn ==
    /\ CanConstruct
    /\ \E idx \in Words, t \in WatchType, p \in BNNPropType :
          IF debug => t = watch_bnn_t
          THEN Constructed(Watched_bnn(idx, t, p),
                           Made("bnn", idx, {}, FALSE, t, p))
          ELSE /\ aborted' = TRUE
               /\ last' = [op |-> "construct", arg |-> FALSE]
               /\ UNCHANGED <<w, made, steps>>
               /\ OtherUnchanged

CtorBin ==
    /\ CanConstruct
    /\ \E n \in Words, r \in BOOLEAN, ID \in IdSamples :
          Constructed(Watched_bin(Lit(n), r, ID),
                      Made("bin", n, ID, r, watch_binary_t, 0))

CanMutate == made.ctor # "none" /\ ~aborted /\ steps < MaxSteps

\* one mutator call: the asserts, then the assignment
Mutated(ok, r, op, arg) ==
    /\ IF ok THEN w' = r /\ aborted' = FALSE
             ELSE w' = w /\ aborted' = TRUE
    /\ last' = [op |-> op, arg |-> arg]
    /\ steps' = steps + 1
    /\ UNCHANGED made
    /\ OtherUnchanged

SetBlockedLit ==
    /\ CanMutate
    /\ \E n \in Words :
          Mutated(setBlockedLit_ok(w), setBlockedLit(w, Lit(n)), "setBlockedLit", FALSE)

SetLit2 ==
    /\ CanMutate
    /\ \E n \in Words :
          Mutated(setLit2_ok(w), setLit2(w, Lit(n)), "setLit2", FALSE)

SetRed ==
    /\ CanMutate
    /\ \E toSet \in BOOLEAN :
          Mutated(setRed_ok(w, toSet), setRed(w, toSet), "setRed", toSet)

MarkBinCl ==
    /\ CanMutate
    /\ Mutated(mark_bin_cl_ok(w), mark_bin_cl(w), "mark_bin_cl", FALSE)

UnmarkBinCl ==
    /\ CanMutate
    /\ Mutated(unmark_bin_cl_ok(w), unmark_bin_cl(w), "unmark_bin_cl", FALSE)

Next ==
    \/ CtorClauseBlocked
    \/ CtorClauseAbst
    \/ CtorIdx
    \/ CtorBnn
    \/ CtorBin
    \/ SetBlockedLit
    \/ SetLit2
    \/ SetRed
    \/ MarkBinCl
    \/ UnmarkBinCl

Spec == Init /\ [][Next]_vars

TypeOK ==
    /\ w.type \in WatchType
    /\ w.data2 \subseteq Bits(EFFECTIVELY_USEABLE_BITS)

-----------------------------------------------------------------------------
(* Properties of Spec *)

\* w has just been constructed
Fresh == made.ctor # "none" /\ steps = 0

RoundTripBut(offsetOK) ==
    /\ made.ctor = "clause_blocked" =>
          /\ offsetOK => get_offset(w) = made.wide
          /\ getBlockedLit(w) = Lit(made.word)
    /\ made.ctor = "clause_abst" =>
          /\ offsetOK => get_offset(w) = made.wide
          /\ getAbst(w) = made.word
    /\ (made.ctor = "bin" /\ IdFits(made.wide)) =>
          /\ lit2(w) = Lit(made.word)
          /\ red(w) = made.red
          /\ get_ID(w) = made.wide
          /\ bin_cl_marked(w) = FALSE
    /\ made.ctor = "idx" => get_idx(w) = made.word
    /\ (made.ctor = "bnn" /\ made.t = watch_bnn_t) =>
          /\ get_bnn(w) = made.word
          /\ get_bnn_prop_t(w) = made.role

\* C1 as stated: every accessor of a freshly constructed record returns the
\* constructor's argument, for every offset a ClOffset can hold.
C1_RoundTripAnyOffset == Fresh => RoundTripBut(TRUE)

\* C1 amended: every accessor of a freshly constructed record returns the
\* constructor's argument, the offset provided it fits the usable width of
\* data2 (and the identifier provided it fits the identifier bit budget).
C1_RoundTrip == Fresh => RoundTripBut(OffsetFits(made.wide))

C1_Witness ==
    /\ Fresh
    /\ made.ctor = "clause_blocked"
    /\ made.wide = Ones(EFFECTIVELY_USEABLE_BITS)
    /\ made.word = MaxWord
    /\ get_offset(w) = made.wide

\* C2: a binary watch built with the largest identifier of the bit budget
\* reads it back, and one built with that identifier plus one is rejected or
\* else reads back the identifier passed in.
C2_BitBudgetBoundary ==
    (Fresh /\ made.ctor = "bin") =>
        /\ made.wide = MaxID => (~aborted /\ get_ID(w) = made.wide)
        /\ made.wide = MaxIDPlus1 => (aborted \/ get_ID(w) = made.wide)

\* C3: whatever mutators have been called, the discriminant is the one the
\* constructor set.
C3_DiscriminantStable == made.ctor # "none" => getType(w) = made.t

C3_Witness ==
    /\ made.ctor = "clause_blocked"
    /\ steps >= 2
    /\ ~aborted
    /\ last.op = "mark_bin_cl"
    /\ bin_cl_marked(w)

\* C4: no step turns red() of a binary record from false to true; setRed on
\* an irreducible record is rejected or leaves the record as it is;
\* setRed(true) is rejected; after an accepted setRed red() is false, and an
\* accepted setRed right after an accepted setRed leaves the record as it is.
C4_FlagDirection ==
    [][made.ctor = "bin" =>
         /\ ~red(w) => ~red(w')
         /\ (last'.op = "setRed" /\ ~red(w)) => (aborted' \/ w' = w)
         /\ (last'.op = "setRed" /\ last'.arg = TRUE) => (aborted' /\ w' = w)
         /\ (last'.op = "setRed" /\ ~aborted') => ~red(w')
         /\ (last.op = "setRed" /\ last'.op = "setRed" /\ ~aborted') => w' = w
      ]_vars

BinMutators == {"setRed", "mark_bin_cl", "unmark_bin_cl", "setLit2"}

\* C9: on a binary record whose identifier fits the bit budget, setRed(false)
\* keeps lit2, the mark and the identifier, mark_bin_cl and unmark_bin_cl
\* keep lit2, the flag and the identifier, setLit2 keeps the flag, the mark
\* and the identifier; after every such call the identifier is the
\* constructor's.
C9_MutatorFrames ==
    [][(made.ctor = "bin" /\ IdFits(made.wide) /\ ~aborted') =>
         /\ last'.op = "setRed" =>
               /\ lit2(w') = lit2(w)
               /\ bin_cl_marked(w') = bin_cl_marked(w)
               /\ get_ID(w') = get_ID(w)
         /\ last'.op \in {"mark_bin_cl", "unmark_bin_cl"} =>
               /\ lit2(w') = lit2(w)
               /\ red(w') = red(w)
               /\ get_ID(w') = get_ID(w)
         /\ last'.op = "setLit2" =>
               /\ red(w') = red(w)
               /\ bin_cl_marked(w') = bin_cl_marked(w)
               /\ get_ID(w') = get_ID(w)
         /\ last'.op \in BinMutators => get_ID(w') = made.wide
      ]_vars

-----------------------------------------------------------------------------
(* SpecEq: two records are constructed independently by the same           *)
(* constructor and compared with operator==                                *)

\* the record a constructor call with the arguments m yields
BuildRec(m, junk) ==
    CASE m.ctor = "clause_blocked" -> Watched_clause_blocked(m.wide, Lit(m.word))
      [] m.ctor = "clause_abst" -> Watched_clause_abst(m.wide, m.word)
      [] m.ctor = "idx" -> Watched_idx(m.word, m.t, junk)
      [] m.ctor = "bnn" -> Watched_bnn(m.word, m.t, m.role)
      [] m.ctor = "bin" -> Watched_bin(Lit(m.word), m.red, m.wide)

\* constructor calls whose offset or identifier the record can represent
EqArgs ==
    {Made(c, n, o, FALSE, watch_clause_t, 0) :
        c \in {"clause_blocked", "clause_abst"}, n \in Words,
        o \in {x \in OffsetSamples : OffsetFits(x)}}
    \cup {Made("bin", n, ID, r, watch_binary_t, 0) :
        n \in Words, r \in BOOLEAN, ID \in {x \in IdSamples : IdFits(x)}}
    \cup {Made("idx", n, {}, FALSE, watch_idx_t, 0) : n \in Words}
    \cup {Made("bnn", n, {}, FALSE, watch_bnn_t, p) : n \in Words, p \in BNNPropType}

EqBuildFirst ==
    /\ made.ctor = "none"
    /\ \E m \in EqArgs, junk \in JunkSamples :
          /\ made' = m
          /\ w' = BuildRec(m, junk)
    /\ last' = [op |-> "construct", arg |-> FALSE]
    /\ UNCHANGED <<large, debug, steps, aborted, w2, made2, eq, recs, plits,
                   args, cmp, list, prevList, nsorts>>

EqBuildSecond ==
    /\ made.ctor # "none"
    /\ made2.ctor = "none"
    /\ \E m \in EqArgs, junk \in JunkSamples :
          /\ m.ctor = made.ctor
          /\ made2' = m
          /\ w2' = BuildRec(m, junk)
    /\ last' = [op |-> "construct", arg |-> FALSE]
    /\ UNCHANGED <<large, debug, steps, aborted, w, made, eq, recs, plits,
                   args, cmp, list, prevList, nsorts>>

EqCompare ==
    /\ made2.ctor # "none"
    /\ eq = <<>>
    /\ eq' = <<Watched_eq(w, w2)>>
    /\ last' = [op |-> "operator==", arg |-> FALSE]
    /\ UNCHANGED <<large, debug, steps, aborted, w, made, w2, made2, recs,
                   plits, args, cmp, list, prevList, nsorts>>

NextEq == EqBuildFirst \/ EqBuildSecond \/ EqCompare

SpecEq == Init /\ [][NextEq]_vars

\* number of constructor arguments in which two calls differ
ArgsDiffering(m, n) ==
    Cardinality({f \in {"word", "wide", "red", "role"} : m[f] # n[f]})

\* C10: two records built by the same constructor from the same arguments
\* compare equal, and two built from arguments differing in one field
\* compare unequal.
C10_EqualityByArguments ==
    eq # <<>> =>
        /\ made = made2 => eq[1] = TRUE
        /\ ArgsDiffering(made, made2) = 1 => eq[1] = FALSE

-----------------------------------------------------------------------------
(* SpecOrd: WatchSorterBinTriLong is applied to every pair of three records *)

Three == 1..3

OrdArgs ==
    {Made("bin", n, ToBits(i), r, watch_binary_t, 0) :
        n \in 0..MaxOrdWord, r \in BOOLEAN, i \in 0..MaxOrdId}
    \cup {Made("clause_blocked", 0, ToBits(i), FALSE, watch_clause_t, 0) :
        i \in 0..MaxOrdId}
    \cup {Made("bnn", 0, {}, FALSE, watch_bnn_t, bnn_out_t),
          Made("idx", 0, {}, FALSE, watch_idx_t, 0)}

InitOrd ==
    /\ large \in BOOLEAN
    /\ debug \in BOOLEAN
    /\ w = NoRec
    /\ made = NoMade
    /\ last = [op |-> "init", arg |-> FALSE]
    /\ steps = 0
    /\ aborted = FALSE
    /\ w2 = NoRec
    /\ made2 = NoMade
    /\ eq = <<>>
    /\ args \in [Three -> OrdArgs]
    /\ \E junk \in JunkSamples : recs = [i \in Three |-> BuildRec(args[i], junk)]
    /\ plits = <<>>
    /\ cmp = <<>>
    /\ list = <<>>
    /\ prevList = <<>>
    /\ nsorts = 0

OrdUnchanged == UNCHANGED <<large, debug, w, made, steps, w2, made2, eq,
                            plits, args, list, prevList, nsorts>>

\* a simplification pass marks or unmarks one of the binary records
OrdMark ==
    /\ ~aborted
    /\ \E i \in Three :
          /\ isBin(recs[i])
          /\ ~bin_cl_marked(recs[i])
          /\ recs' = [recs EXCEPT ![i] = mark_bin_cl(recs[i])]
    /\ cmp' = <<>>
    /\ last' = [op |-> "mark_bin_cl", arg |-> FALSE]
    /\ UNCHANGED aborted
    /\ OrdUnchanged

OrdUnmark ==
    /\ ~aborted
    /\ \E i \in Three :
          /\ isBin(recs[i])
          /\ bin_cl_marked(recs[i])
          /\ recs' = [recs EXCEPT ![i] = unmark_bin_cl(recs[i])]
    /\ cmp' = <<>>
    /\ last' = [op |-> "unmark_bin_cl", arg |-> FALSE]
    /\ UNCHANGED aborted
    /\ OrdUnchanged

OrdCompare ==
    /\ ~aborted
    /\ cmp = <<>>
    /\ IF \A i, j \in Three : WatchSorterBinTriLong_ok(recs[i], recs[j])
       THEN /\ cmp' = [i \in Three |->
                        [j \in Three |-> WatchSorterBinTriLong(recs[i], recs[j])]]
            /\ aborted' = FALSE
       ELSE /\ cmp' = cmp
            /\ aborted' = TRUE
    /\ last' = [op |-> "WatchSorterBinTriLong", arg |-> FALSE]
    /\ UNCHANGED recs
    /\ OrdUnchanged

NextOrd == OrdMark \/ OrdUnmark \/ OrdCompare

SpecOrd == InitOrd /\ [][NextOrd]_vars

\* C5: on binary, long-clause and thresholded-constraint records the
\* comparator is a strict weak ordering: irreflexive, asymmetric,
\* transitive, and with a transitive incomparability.
C5_StrictWeakOrder ==
    cmp # <<>> =>
        /\ \A i \in Three : ~cmp[i][i]
        /\ \A i, j \in Three : cmp[i][j] => ~cmp[j][i]
        /\ \A i, j, k \in Three : (cmp[i][j] /\ cmp[j][k]) => cmp[i][k]
        /\ \A i, j, k \in Three :
              (~cmp[i][j] /\ ~cmp[j][i] /\ ~cmp[j][k] /\ ~cmp[k][j])
                  => (~cmp[i][k] /\ ~cmp[k][i])

C5_Witness ==
    /\ cmp # <<>>
    /\ isBin(recs[1]) /\ isBin(recs[2]) /\ isClause(recs[3])
    /\ cmp[1][2] /\ cmp[2][3] /\ cmp[1][3]
    /\ lit2(recs[1]) = lit2(recs[2]) /\ red(recs[1]) = red(recs[2])

\* the key the canonical order sorts binary records by
BinKey(m) == <<m.word, IF m.red THEN 1 ELSE 0, FromBits(m.wide)>>

LexLess(x, y) ==
    \/ x[1] < y[1]
    \/ x[1] = y[1] /\ x[2] < y[2]
    \/ x[1] = y[1] /\ x[2] = y[2] /\ x[3] < y[3]

\* C8: between two binary records the comparator is the lexicographic
\* order of (other literal, irreducible before redundant, identifier) of the
\* values the records were built from, whether or not either is marked.
C8_BinaryLexOrder ==
    cmp # <<>> =>
        \A i, j \in Three :
            (args[i].ctor = "bin" /\ args[j].ctor = "bin") =>
                /\ cmp[i][j] = LexLess(BinKey(args[i]), BinKey(args[j]))
                /\ cmp[i][j] = WatchSorterBinTriLong(mark_bin_cl(recs[i]), recs[j])
                /\ cmp[i][j] = WatchSorterBinTriLong(recs[i], unmark_bin_cl(recs[j]))

C8_Witness ==
    /\ cmp # <<>>
    /\ isBin(recs[1]) /\ isBin(recs[2])
    /\ lit2(recs[1]) = lit2(recs[2])
    /\ ~red(recs[1]) /\ red(recs[2])
    /\ ULess(get_ID(recs[2]), get_ID(recs[1]))
    /\ bin_cl_marked(recs[1]) /\ ~bin_cl_marked(recs[2])
    /\ cmp[1][2]

-----------------------------------------------------------------------------
(* SpecOcc: OccurClause::operator< and operator== are applied to every     *)
(* pair of three occurrence pairs                                          *)

OccArgs ==
    {Made("bin", n, {}, r, watch_binary_t, 0) : n \in 0..MaxOrdWord, r \in BOOLEAN}
    \cup {Made("clause_blocked", 0, ToBits(i), FALSE, watch_clause_t, 0) :
        i \in 0..MaxOrdId}
    \cup {Made("bnn", 0, {}, FALSE, watch_bnn_t, bnn_out_t)}

InitOcc ==
    /\ large \in BOOLEAN
    /\ debug \in BOOLEAN
    /\ w = NoRec
    /\ made = NoMade
    /\ last = [op |-> "init", arg |-> FALSE]
    /\ steps = 0
    /\ aborted = FALSE
    /\ w2 = NoRec
    /\ made2 = NoMade
    /\ eq = <<>>
    /\ args \in [Three -> OccArgs]
    /\ recs = [i \in Three |-> BuildRec(args[i], {})]
    /\ plits \in [Three -> {Lit(n) : n \in 0..MaxOrdWord}]
    /\ cmp = <<>>
    /\ list = <<>>
    /\ prevList = <<>>
    /\ nsorts = 0

Pair(i) == OccurClause(plits[i], recs[i])

OccCompare ==
    /\ ~aborted
    /\ cmp = <<>>
    /\ IF \A i, j \in Three : OccurClause_lt_ok(Pair(i), Pair(j))
       THEN /\ cmp' = [i \in Three |->
                        [j \in Three |-> OccurClause_lt(Pair(i), Pair(j))]]
            /\ eq' = [i \in Three |->
                        [j \in Three |-> OccurClause_eq(Pair(i), Pair(j))]]
            /\ aborted' = FALSE
       ELSE /\ cmp' = cmp
            /\ eq' = eq
            /\ aborted' = TRUE
    /\ last' = [op |-> "OccurClause<", arg |-> FALSE]
    /\ UNCHANGED <<large, debug, w, made, steps, w2, made2, recs, plits, args,
                   list, prevList, nsorts>>

NextOcc == OccCompare

SpecOcc == InitOcc /\ [][NextOcc]_vars

OccIrreflexiveTransitive ==
    /\ \A i \in Three : ~cmp[i][i]
    /\ \A i, j, k \in Three : (cmp[i][j] /\ cmp[j][k]) => cmp[i][k]

\* C7 as stated: operator< is irreflexive and transitive, and of two pairs
\* that are not equal under operator== exactly one is less than the other.
C7_TotalOrder ==
    cmp # <<>> =>
        /\ OccIrreflexiveTransitive
        /\ \A i, j \in Three : ~eq[i][j] => (cmp[i][j] # cmp[j][i])

\* two pairs share the key operator< compares: both binary with the same
\* other literal, or both long-clause with the same offset
SameOccKey(m, n) ==
    /\ (m.ctor = "bin") = (n.ctor = "bin")
    /\ m.ctor = "bin" => m.word = n.word
    /\ m.ctor # "bin" => m.wide = n.wide

\* C7 amended: operator< is irreflexive and transitive, never holds in both
\* directions, and holds in exactly one direction exactly between pairs
\* that differ in the compared key (binary before long-clause, then the
\* other literal of binaries, the offset of long clauses); pairs with the
\* same key are unordered also when they are not equal under operator==.
C7_StrictWeakOrder ==
    cmp # <<>> =>
        /\ OccIrreflexiveTransitive
        /\ \A i, j \in Three : ~(cmp[i][j] /\ cmp[j][i])
        /\ \A i, j \in Three :
              (cmp[i][j] \/ cmp[j][i]) = ~SameOccKey(args[i], args[j])

C7_Witness ==
    /\ cmp # <<>>
    /\ isBin(recs[1]) /\ isClause(recs[2]) /\ isClause(recs[3])
    /\ cmp[1][2] /\ cmp[2][3] /\ cmp[1][3]
    /\ ~eq[1][2]

-----------------------------------------------------------------------------
(* SpecSort: one literal's watch list is sorted with WatchSorterBinTriLong, *)
(* and sorted again                                                         *)

SortArgs ==
    {Made("bin", x[1], {}, x[2], watch_binary_t, 0) :
        x \in {<<0, FALSE>>, <<1, FALSE>>, <<0, TRUE>>}}
    \cup {Made("clause_blocked", 0, ToBits(i), FALSE, watch_clause_t, 0) :
        i \in {0, 1}}
    \cup {Made("bnn", 0, {}, FALSE, watch_bnn_t, bnn_out_t)}

\* the records a watch list holds: built by a constructor, a binary
\* possibly marked since
SortRecords ==
    {BuildRec(m, {}) : m \in SortArgs}
    \cup {mark_bin_cl(BuildRec(m, {})) :
            m \in {x \in SortArgs : x.ctor = "bin" /\ x.word = 0 /\ ~x.red}}

InitSort ==
    /\ large \in BOOLEAN
    /\ debug \in BOOLEAN
    /\ w = NoRec
    /\ made = NoMade
    /\ last = [op |-> "init", arg |-> FALSE]
    /\ steps = 0
    /\ aborted = FALSE
    /\ w2 = NoRec
    /\ made2 = NoMade
    /\ eq = <<>>
    /\ args = <<>>
    /\ recs = <<>>
    /\ plits = <<>>
    /\ cmp = <<>>
    /\ \E n \in 0..MaxListLen : list \in [1..n -> SortRecords]
    /\ prevList = <<>>
    /\ nsorts = 0

IndexPerms(n) ==
    {f \in [1..n -> 1..n] : \A i, j \in 1..n : f[i] = f[j] => i = j}

\* what a comparison sort guarantees of its output: no element is ranked
\* before an element that precedes it
IsSorted(s) ==
    \A i, j \in 1..Len(s) : i < j => ~WatchSorterBinTriLong(s[j], s[i])

\* the outputs a comparison sort, stable or not, may produce for s
SortResults(s) ==
    {t \in {[i \in 1..Len(s) |-> s[f[i]]] : f \in IndexPerms(Len(s))} :
        IsSorted(t)}

SortList ==
    /\ nsorts < 2
    /\ list' \in SortResults(list)
    /\ prevList' = list
    /\ nsorts' = nsorts + 1
    /\ last' = [op |-> "sort", arg |-> FALSE]
    /\ UNCHANGED <<large, debug, w, made, steps, aborted, w2, made2, eq, recs,
                   plits, args, cmp>>

NextSort == SortList

SpecSort == InitSort /\ [][NextSort]_vars

BinaryFirst(s) ==
    \A i, j \in 1..Len(s) :
        (isBin(s[i]) /\ (isClause(s[j]) \/ isBNN(s[j]))) => i < j

\* C6 as stated: after the sort every binary record precedes every
\* long-clause or thresholded-constraint record, and a second sort leaves
\* the list as it is.
C6_BinaryFirstIdempotent ==
    /\ nsorts >= 1 => BinaryFirst(list)
    /\ nsorts = 2 => list = prevList

\* s and t hold the same records the same number of times
SameRecords(s, t) ==
    /\ Len(s) = Len(t)
    /\ \A r \in SortRecords :
          Cardinality({i \in 1..Len(s) : s[i] = r})
              = Cardinality({i \in 1..Len(t) : t[i] = r})

\* C6 amended: after the sort every binary record precedes every
\* long-clause or thresholded-constraint record, and a second sort keeps
\* the records and leaves at every index a record that the comparator ranks
\* equal to the one that was there; records it ranks equal may trade places.
C6_BinaryFirstStableKeys ==
    /\ nsorts >= 1 => BinaryFirst(list)
    /\ nsorts = 2 =>
          /\ SameRecords(list, prevList)
          /\ \A i \in 1..Len(list) :
                /\ ~WatchSorterBinTriLong(list[i], prevList[i])
                /\ ~WatchSorterBinTriLong(prevList[i], list[i])

C6_Witness ==
    /\ nsorts = 2
    /\ Len(list) = MaxListLen
    /\ isBin(list[1])
    /\ isClause(list[Len(list)])
    /\ list # prevList

====
